---- MODULE Spec2Model ----
(***************************************************************************)
(* rbak: backup of a single file (name.bak) or of a directory tree         *)
(* (name_bak).  The model covers src/main.rs: backup_path,                 *)
(* backup_directory and the two subcommands of main, running against a     *)
(* small file system.                                                      *)
(*                                                                         *)
(* A file name is a sequence of one-character strings, so that the         *)
(* extension handling of Path::with_extension is computed, not assumed.    *)
(* A path is a record [abs, segs]: the text the user typed, split at '/'.  *)
(* A node of the file system is named by the sequence of names leading to  *)
(* it from the root.                                                       *)
(***************************************************************************)
EXTENDS Naturals, Sequences, FiniteSets

VARIABLES
    fs,        \* the file system: node path -> [kind, data]
    fs0,       \* the file system when the command started
    cmd,       \* the command line (or the library call) being run
    pc,        \* "start", "copy" (inside backup_directory), "done"
    exit,      \* "running", "ok", "err"
    stack,     \* the call stack of backup_directory
    derived,   \* the call of backup_path made, with its result
    bak,       \* the backup path main computed
    faulty,    \* whether the environment may fail an I/O operation
    failed,    \* an operation of backup_directory has failed
    failDepth, \* the recursion depth at which it failed
    maxDepth   \* the deepest recursion of backup_directory so far

vars == <<fs, fs0, cmd, pc, exit, stack, derived, bak, faulty, failed, failDepth, maxDepth>>

----------------------------------------------------------------------------
(* Bounds *)

\* The longest path, in components, the system accepts (PATH_MAX).
MaxPathLen == 5

----------------------------------------------------------------------------
(* Option<T>: None is the empty sequence, Some(x) the sequence of x. *)

None == <<>>
Some(x) == <<x>>
Front(s) == SubSeq(s, 1, Len(s) - 1)
Last(s) == s[Len(s)]

----------------------------------------------------------------------------
(* Names and std::path::Path *)

CurDir == <<".">>
ParentDir == <<".", ".">>

Path(abs, segs) == [abs |-> abs, segs |-> segs]

\* Path::components: '.' is dropped except at the start of a relative path.
Components(p) ==
    IF ~p.abs /\ p.segs # <<>> /\ Head(p.segs) = CurDir
    THEN <<CurDir>> \o SelectSeq(Tail(p.segs), LAMBDA s : s # CurDir)
    ELSE SelectSeq(p.segs, LAMBDA s : s # CurDir)

\* Path::parent: the path without its last component; None for the root
\* and for the empty path.
Parent(p) ==
    LET c == Components(p)
    IN  IF c = <<>> THEN None ELSE Some(Path(p.abs, Front(c)))

\* Path::file_name: the last component when it is a normal name.
FileName(p) ==
    LET c == Components(p)
    IN  IF c = <<>> \/ Last(c) \in {CurDir, ParentDir} THEN None ELSE Some(Last(c))

\* PathBuf::push of one relative component.
Push(p, name) == Path(p.abs, p.segs \o <<name>>)

\* The place of the last '.' of a name, 0 when it has none.
LastDot(name) ==
    LET dots == {i \in 1..Len(name) : name[i] = "."}
    IN  IF dots = {} THEN 0 ELSE CHOOSE i \in dots : \A j \in dots : j <= i

\* Path::file_stem: the name up to its last '.'; the whole name when it has no
\* '.', when its only '.' is the first character, or when it is "..".
FileStem(name) ==
    IF name = ParentDir \/ LastDot(name) <= 1
    THEN name
    ELSE SubSeq(name, 1, LastDot(name) - 1)

\* A mutant of WithExtension: the extension is appended to the whole name.
WithExtensionAppended(name, ext) == name \o <<".">> \o ext

\* Path::new(name).with_extension(ext): the stem, then '.' and ext.
WithExtension(name, ext) ==
    IF ext = <<>> THEN FileStem(name) ELSE FileStem(name) \o <<".">> \o ext

\* str::trim_start_matches(c)
RECURSIVE TrimStartMatches(_, _)
TrimStartMatches(s, c) ==
    IF s # <<>> /\ Head(s) = c THEN TrimStartMatches(Tail(s), c) ELSE s

----------------------------------------------------------------------------
(* The file system *)

Dir == [kind |-> "dir", data |-> ""]
File(data) == [kind |-> "file", data |-> data]
Other == [kind |-> "other", data |-> ""]

\* The working directory of the process.
Cwd == << <<"w">> >>

IsDirAt(f, n) == n \in DOMAIN f /\ f[n].kind = "dir"

\* The file system f with node n set to v.
Put(f, n, v) == [m \in DOMAIN f \cup {n} |-> IF m = n THEN v ELSE f[m]]

\* The kernel's path walk from node cur along segs: every step needs a
\* directory; '..' of the root is the root.
RECURSIVE Walk(_, _, _)
Walk(f, cur, segs) ==
    IF segs = <<>> THEN Some(cur)
    ELSE IF ~IsDirAt(f, cur) THEN None
    ELSE IF Head(segs) = CurDir THEN Walk(f, cur, Tail(segs))
    ELSE IF Head(segs) = ParentDir
         THEN Walk(f, IF cur = <<>> THEN cur ELSE Front(cur), Tail(segs))
    ELSE IF (cur \o <<Head(segs)>>) \in DOMAIN f
         THEN Walk(f, cur \o <<Head(segs)>>, Tail(segs))
    ELSE None

Start(p) == IF p.abs THEN <<>> ELSE Cwd

\* The node an existing path names; None when it names nothing (the empty
\* path names nothing).
Resolve(f, p) ==
    IF ~p.abs /\ p.segs = <<>> THEN None ELSE Walk(f, Start(p), p.segs)

\* The node a path names or would name once created: its parent directory
\* must exist.
Target(f, p) ==
    IF p.segs = <<>> THEN Resolve(f, p)
    ELSE LET par == Walk(f, Start(p), Front(p.segs))
         IN  IF par = None \/ ~IsDirAt(f, par[1]) THEN None
             ELSE IF Last(p.segs) \in {CurDir, ParentDir}
                  THEN Walk(f, par[1], <<Last(p.segs)>>)
             ELSE Some(par[1] \o <<Last(p.segs)>>)

\* ENAMETOOLONG
NameTooLong(p) == Len(p.segs) > MaxPathLen

\* The names of the entries of directory node d.
Entries(f, d) == {n[Len(n)] : n \in {m \in DOMAIN f : Len(m) = Len(d) + 1 /\ Front(m) = d}}

\* Whether node n lies under node d (or is d).
Under(n, d) == Len(n) >= Len(d) /\ SubSeq(n, 1, Len(d)) = d

\* The outcome of a file-system operation: whether it succeeded, and the
\* file system it leaves.
Outcome(ok, f) == [ok |-> ok, fs |-> f]

\* An operation the environment may fail (permissions, I/O error) fails
\* without effect.
Faults(f, flt) == IF flt THEN {Outcome(FALSE, f)} ELSE {}

\* fs::metadata(path).ok()
Metadata(f, p) ==
    LET r == Resolve(f, p)
    IN  IF NameTooLong(p) \/ r = None THEN None ELSE Some(f[r[1]])

\* mkdir of the prefixes k.. of p, the shorter ones being directories.
RECURSIVE MkdirFrom(_, _, _)
MkdirFrom(f, p, k) ==
    IF k > Len(p.segs) THEN Outcome(TRUE, f)
    ELSE LET t == Target(f, Path(p.abs, SubSeq(p.segs, 1, k)))
         IN  IF t = None THEN Outcome(FALSE, f)
             ELSE IF t[1] \in DOMAIN f
                  THEN IF f[t[1]].kind = "dir" THEN MkdirFrom(f, p, k + 1)
                       ELSE Outcome(FALSE, f)
             ELSE MkdirFrom(Put(f, t[1], Dir), p, k + 1)

\* A mutant of CreateDirAll: fs::create_dir, which creates no ancestor.
CreateDir(f, p, flt) ==
    LET t == Target(f, p)
    IN  Faults(f, flt) \cup
        {IF NameTooLong(p) \/ t = None \/ t[1] \in DOMAIN f
         THEN Outcome(FALSE, f)
         ELSE Outcome(TRUE, Put(f, t[1], Dir))}

\* fs::create_dir_all(path): creates the directory and its missing
\* ancestors; succeeds when it already exists; fails when a component is
\* not a directory or the path is too long.
CreateDirAll(f, p, flt) ==
    Faults(f, flt) \cup
    {IF NameTooLong(p) THEN Outcome(FALSE, f) ELSE MkdirFrom(f, p, 1)}

\* fs::read_dir(path): the names of the entries, or None.  The entries are
\* those present when the directory is opened; backup_directory opens it
\* after create_dir_all(dst), and in no run below does a directory gain an
\* entry while it is being listed.
ReadDir(f, p, flt) ==
    (IF flt THEN {None} ELSE {}) \cup
    {LET r == Resolve(f, p)
     IN  IF NameTooLong(p) \/ r = None \/ ~IsDirAt(f, r[1]) THEN None
         ELSE Some(Entries(f, r[1]))}

\* A mutant of FsCopy: the destination is created before the source is
\* opened.
FsCopyDestFirst(f, from, to, flt) ==
    LET s == Resolve(f, from)
        t == Target(f, to)
        made == IF NameTooLong(to) \/ t = None
                   \/ (t[1] \in DOMAIN f /\ f[t[1]].kind # "file")
                THEN None ELSE Some(Put(f, t[1], File("")))
    IN  Faults(f, flt) \cup
        (IF made = None THEN {Outcome(FALSE, f)}
         ELSE IF NameTooLong(from) \/ s = None \/ f[s[1]].kind # "file"
         THEN {Outcome(FALSE, made[1])}
         ELSE {Outcome(TRUE, Put(f, t[1], File(IF t[1] = s[1] THEN "" ELSE f[s[1]].data)))})

\* A mutant of FsCopy: the destination is created, its bytes are not written.
FsCopyNoBytes(f, from, to, flt) ==
    LET s == Resolve(f, from)
        t == Target(f, to)
    IN  Faults(f, flt) \cup
        (IF NameTooLong(from) \/ s = None \/ f[s[1]].kind # "file"
            \/ NameTooLong(to) \/ t = None
            \/ (t[1] \in DOMAIN f /\ f[t[1]].kind # "file")
         THEN {Outcome(FALSE, f)}
         ELSE {Outcome(TRUE, Put(f, t[1], File("")))})

\* fs::copy(from, to): the source is opened first and must be a regular
\* file; then the destination is created or truncated, and must not be a
\* directory; then the bytes are copied.  Copying a file onto itself
\* truncates it or fails, depending on the platform.
FsCopy(f, from, to, flt) ==
    LET s == Resolve(f, from)
        t == Target(f, to)
    IN  Faults(f, flt) \cup
        (IF NameTooLong(from) \/ s = None \/ f[s[1]].kind # "file"
         THEN {Outcome(FALSE, f)}
         ELSE IF NameTooLong(to) \/ t = None
                 \/ (t[1] \in DOMAIN f /\ f[t[1]].kind # "file")
         THEN {Outcome(FALSE, f)}
         ELSE IF t[1] = s[1]
         THEN {Outcome(TRUE, Put(f, s[1], File(""))), Outcome(FALSE, f)}
         ELSE {Outcome(TRUE, Put(f, t[1], File(f[s[1]].data)))})

----------------------------------------------------------------------------
(* backup_path *)

BAK == <<"b", "a", "k">>
UBAK == <<"_", "b", "a", "k">>

\* A mutant of backup_path: the suffix "_bak" is not trimmed before
\* "{}_{}" is formatted.
backup_path_untrimmed(f, path, kind) ==
    LET metadata == Metadata(f, path)
        is_valid == \/ kind = "File" /\ metadata[1].kind = "file"
                    \/ kind = "Directory" /\ metadata[1].kind = "dir"
        suffix == IF kind = "File" THEN BAK ELSE UBAK
        parent == Parent(path)
        name == FileName(path)
    IN  IF metadata = None THEN None
        ELSE IF ~is_valid THEN None
        ELSE IF parent = None THEN None
        ELSE IF name = None THEN None
        ELSE IF kind = "File"
             THEN Some(Push(parent[1], WithExtension(name[1], suffix)))
             ELSE Some(Push(parent[1], name[1] \o <<"_">> \o suffix))

\* A mutant of backup_path: the type of the path is not checked against kind.
backup_path_unchecked(f, path, kind) ==
    LET metadata == Metadata(f, path)
        suffix == IF kind = "File" THEN BAK ELSE UBAK
        parent == Parent(path)
        name == FileName(path)
    IN  IF metadata = None THEN None
        ELSE IF parent = None THEN None
        ELSE IF name = None THEN None
        ELSE IF kind = "File"
             THEN Some(Push(parent[1], WithExtension(name[1], suffix)))
             ELSE Some(Push(parent[1], name[1] \o <<"_">> \o TrimStartMatches(suffix, "_")))

\* backup_path(path, kind): None unless path exists with the type kind
\* names and has a parent and a file name; then parent/<stem>.bak for a
\* file, parent/<name>_bak for a directory.
backup_path(f, path, kind) ==
    LET metadata == Metadata(f, path)
        is_valid == \/ kind = "File" /\ metadata[1].kind = "file"
                    \/ kind = "Directory" /\ metadata[1].kind = "dir"
        suffix == IF kind = "File" THEN BAK ELSE UBAK
        parent == Parent(path)
        name == FileName(path)
    IN  IF metadata = None THEN None
        ELSE IF ~is_valid THEN None
        ELSE IF parent = None THEN None
        ELSE IF name = None THEN None
        ELSE IF kind = "File"
             THEN Some(Push(parent[1], WithExtension(name[1], suffix)))
             ELSE Some(Push(parent[1], name[1] \o <<"_">> \o TrimStartMatches(suffix, "_")))

----------------------------------------------------------------------------
(* The file systems and command lines the runs start from *)

nW == <<"w">>
nP == <<"p">>
nPbak == <<"p", "_", "b", "a", "k">>
nS == <<"s">>
nAT == <<"a", ".", "t">>
nBT == <<"b", ".", "t">>
nL == <<"l">>
nZ == <<"z">>
nN == <<"n">>
nNT == <<"n", ".", "t">>
nNbak == <<"n", ".", "b", "a", "k">>
nATG == <<"a", ".", "t", ".", "g">>
nH == <<".", "h">>
nM == <<"m">>
nO == <<"o">>
nQ == <<"q">>

\* The file system holding the nodes of a set of <<node, value>> pairs.
FsOf(S) == [n \in {e[1] : e \in S} |-> (CHOOSE e \in S : e[1] = n)[2]]

\* /w holds the files n, n.t, n.bak, a.t.g and .h and the directory p;
\* p holds a.t and the directory s, which holds b.t.
BaseTree ==
    { << <<>>, Dir >>, << <<nW>>, Dir >>,
      << <<nW, nN>>, File("abc") >>, << <<nW, nNT>>, File("abc") >>,
      << <<nW, nNbak>>, File("old") >>, << <<nW, nATG>>, File("tgz") >>,
      << <<nW, nH>>, File("hid") >>,
      << <<nW, nP>>, Dir >>, << <<nW, nP, nAT>>, File("x") >>,
      << <<nW, nP, nS>>, Dir >>, << <<nW, nP, nS, nBT>>, File("y") >> }

\* What each starting file system adds to the base tree:
\*  1 nothing;  2 a socket in p, and a partial, stale earlier copy p_bak;
\*  3 a p_bak holding an entry p does not have;  4 a partial, stale copy p_bak inside p;
\*  5 a p_bak where a.t is a directory;  6 a complete copy p_bak.
Scenarios ==
    { FsOf(BaseTree),
      FsOf(BaseTree \cup { << <<nW, nP, nL>>, Other >>, << <<nW, nPbak>>, Dir >>,
                           << <<nW, nPbak, nAT>>, File("old") >>,
                           << <<nW, nPbak, nS>>, Dir >> }),
      FsOf(BaseTree \cup { << <<nW, nPbak>>, Dir >>, << <<nW, nPbak, nZ>>, File("zz") >> }),
      FsOf(BaseTree \cup { << <<nW, nP, nPbak>>, Dir >>,
                           << <<nW, nP, nPbak, nAT>>, File("old") >> }),
      FsOf(BaseTree \cup { << <<nW, nPbak>>, Dir >>, << <<nW, nPbak, nAT>>, Dir >> }),
      FsOf(BaseTree \cup { << <<nW, nPbak>>, Dir >>, << <<nW, nPbak, nAT>>, File("x") >>,
                           << <<nW, nPbak, nS>>, Dir >>,
                           << <<nW, nPbak, nS, nBT>>, File("y") >> }) }

Rel(segs) == Path(FALSE, segs)
Abs(segs) == Path(TRUE, segs)

\* The source paths: files, directories, a socket, '.', '..', 'p/..', the
\* root, a missing name, the empty path.
SrcPaths ==
    { Rel(<<nN>>), Rel(<<nNT>>), Rel(<<nNbak>>), Rel(<<nATG>>), Rel(<<nH>>),
      Rel(<<nP>>), Rel(<<nP, nAT>>), Rel(<<nP, nS>>), Rel(<<nP, nL>>),
      Rel(<<CurDir>>), Rel(<<ParentDir>>), Rel(<<nP, ParentDir>>),
      Rel(<<nP, nS, CurDir>>), Rel(<<CurDir, nP>>), Rel(<<nM>>), Rel(<<>>),
      Abs(<<>>), Abs(<<nW, nP>>) }

\* The --dest options: absent, a missing directory, a missing directory
\* under a missing directory, the working directory, the source directory p,
\* a missing directory inside p, the working directory by its absolute path.
Dests ==
    { None, Some(Rel(<<nO>>)), Some(Rel(<<nO, nQ>>)), Some(Rel(<<CurDir>>)),
      Some(Rel(<<nP>>)), Some(Rel(<<nP, nO>>)), Some(Abs(<<nW>>)) }

\* 'rbak file', 'rbak dir', and a direct call of backup_path.
Commands ==
    [op : {"file", "dir"}, path : SrcPaths, dest : Dests, kind : {"-"}]
    \cup [op : {"path"}, path : SrcPaths, dest : {None}, kind : {"File", "Directory"}]

----------------------------------------------------------------------------
(* The program *)

Init ==
    /\ fs \in Scenarios
    /\ fs0 = fs
    /\ cmd \in Commands
    /\ faulty \in BOOLEAN
    /\ pc = "start"
    /\ exit = "running"
    /\ stack = <<>>
    /\ derived = None
    /\ bak = None
    /\ failed = FALSE
    /\ failDepth = 0
    /\ maxDepth = 0

Frame(src, dst, st, pending) == [src |-> src, dst |-> dst, st |-> st, pending |-> pending]

\* The record of a call backup_path(path, kind) and its result.
Call(path, kind) == [path |-> path, kind |-> kind, result |-> backup_path(fs, path, kind)]

\* main returns: Ok(()) is exit code 0, Err a non-zero exit.
Exit(code) ==
    /\ pc' = "done"
    /\ exit' = code
    /\ stack' = <<>>

\* A direct call of backup_path.
Call_backup_path ==
    /\ pc = "start" /\ cmd.op = "path"
    /\ derived' = Some(Call(cmd.path, cmd.kind))
    /\ bak' = derived'[1].result
    /\ Exit("ok")
    /\ UNCHANGED <<fs, fs0, cmd, faulty, failed, failDepth, maxDepth>>

\* Commands::File: the backup path is dest/<name>.bak, or backup_path's;
\* then one fs::copy.
Commands_File ==
    /\ pc = "start" /\ cmd.op = "file"
    /\ LET name == FileName(cmd.path)
           call == Call(cmd.path, "File")
           b == IF cmd.dest # None
                THEN Some(IF name # None
                          THEN Push(cmd.dest[1], WithExtension(name[1], BAK))
                          ELSE cmd.dest[1])
                ELSE call.result
       IN  /\ derived' = IF cmd.dest # None THEN None ELSE Some(call)
           /\ bak' = b
           /\ IF b = None
              THEN fs' = fs /\ Exit("err")
              ELSE \E o \in FsCopy(fs, cmd.path, b[1], faulty) :
                      /\ fs' = o.fs
                      /\ Exit(IF o.ok THEN "ok" ELSE "err")
    /\ UNCHANGED <<fs0, cmd, faulty, failed, failDepth, maxDepth>>

\* Commands::Dir up to the call of backup_directory: the backup directory is
\* dest/<name>_bak, or backup_path's.
Commands_Dir ==
    /\ pc = "start" /\ cmd.op = "dir"
    /\ LET call == Call(cmd.path, "Directory")
           orig_backup == call.result
           b == IF orig_backup = None THEN None
                ELSE IF cmd.dest # None
                THEN Some(Push(cmd.dest[1], FileName(orig_backup[1])[1]))
                ELSE orig_backup
       IN  /\ derived' = Some(call)
           /\ bak' = b
           /\ IF b = None
              THEN Exit("err") /\ maxDepth' = maxDepth
              ELSE /\ pc' = "copy"
                   /\ exit' = exit
                   /\ stack' = <<Frame(cmd.path, b[1], "enter", {})>>
                   /\ maxDepth' = 1
    /\ UNCHANGED <<fs, fs0, cmd, faulty, failed, failDepth>>

Top == stack[Len(stack)]
SetTop(fr) == [stack EXCEPT ![Len(stack)] = fr]

\* A mutant of Fail: the error of a recursive call is dropped by its caller,
\* whose loop goes on.
FailSwallowed(f) ==
    /\ fs' = f
    /\ failed' = TRUE
    /\ failDepth' = Len(stack)
    /\ IF Len(stack) = 1
       THEN Exit("err")
       ELSE stack' = Front(stack) /\ UNCHANGED <<pc, exit>>
    /\ UNCHANGED maxDepth

\* An operation of backup_directory fails: '?' returns the error from every
\* frame, and main exits with it.
Fail(f) ==
    /\ fs' = f
    /\ Exit("err")
    /\ failed' = TRUE
    /\ failDepth' = Len(stack)
    /\ UNCHANGED maxDepth

\* backup_directory: create_dir_all(dst), then read_dir(src).
BD_Enter ==
    /\ pc = "copy" /\ Top.st = "enter"
    /\ \E o \in CreateDirAll(fs, Top.dst, faulty) :
          IF ~o.ok THEN Fail(o.fs)
          ELSE \E r \in ReadDir(o.fs, Top.src, faulty) :
                  IF r = None THEN Fail(o.fs)
                  ELSE /\ fs' = o.fs
                       /\ stack' = SetTop(Frame(Top.src, Top.dst, "loop", r[1]))
                       /\ UNCHANGED <<pc, exit, failed, failDepth, maxDepth>>
    /\ UNCHANGED <<fs0, cmd, faulty, derived, bak>>

\* The type of the entry e of the directory being listed.
FileType(e) == fs[Resolve(fs, Top.src)[1] \o <<e>>].kind

Rest(e) == Frame(Top.src, Top.dst, "loop", Top.pending \ {e})

\* Reading the next entry, or its file type, fails.
BD_EntryError ==
    /\ pc = "copy" /\ Top.st = "loop" /\ Top.pending # {}
    /\ faulty
    /\ Fail(fs)
    /\ UNCHANGED <<fs0, cmd, faulty, derived, bak>>

\* The entry is a directory: recurse.
BD_Recurse ==
    /\ pc = "copy" /\ Top.st = "loop"
    /\ \E e \in Top.pending :
          /\ FileType(e) = "dir"
          /\ stack' = Append(SetTop(Rest(e)),
                             Frame(Push(Top.src, e), Push(Top.dst, e), "enter", {}))
    /\ maxDepth' = IF Len(stack') > maxDepth THEN Len(stack') ELSE maxDepth
    /\ UNCHANGED <<fs, fs0, cmd, pc, exit, faulty, derived, bak, failed, failDepth>>

\* The entry is a regular file: copy it.
BD_Copy ==
    /\ pc = "copy" /\ Top.st = "loop"
    /\ \E e \in Top.pending :
          /\ FileType(e) = "file"
          /\ \E o \in FsCopy(fs, Push(Top.src, e), Push(Top.dst, e), faulty) :
                IF ~o.ok THEN Fail(o.fs)
                ELSE /\ fs' = o.fs
                     /\ stack' = SetTop(Rest(e))
                     /\ UNCHANGED <<pc, exit, failed, failDepth, maxDepth>>
    /\ UNCHANGED <<fs0, cmd, faulty, derived, bak>>

\* The entry is neither: skip it.
BD_Skip ==
    /\ pc = "copy" /\ Top.st = "loop"
    /\ \E e \in Top.pending :
          /\ FileType(e) \notin {"dir", "file"}
          /\ stack' = SetTop(Rest(e))
    /\ UNCHANGED <<fs, fs0, cmd, pc, exit, faulty, derived, bak, failed, failDepth, maxDepth>>

\* Every entry is done: Ok(()), to the caller's loop or to main.
BD_Return ==
    /\ pc = "copy" /\ Top.st = "loop" /\ Top.pending = {}
    /\ IF Len(stack) = 1
       THEN Exit("ok")
       ELSE stack' = Front(stack) /\ UNCHANGED <<pc, exit>>
    /\ UNCHANGED <<fs, fs0, cmd, faulty, derived, bak, failed, failDepth, maxDepth>>

Next ==
    \/ Call_backup_path
    \/ Commands_File
    \/ Commands_Dir
    \/ BD_Enter
    \/ BD_EntryError
    \/ BD_Recurse
    \/ BD_Copy
    \/ BD_Skip
    \/ BD_Return

Spec == Init /\ [][Next]_vars

----------------------------------------------------------------------------
(* What the claims speak of *)

\* The node the source path named when the command started.
SrcNode == Resolve(fs0, cmd.path)
SrcIs(kind) == SrcNode # None /\ fs0[SrcNode[1]].kind = kind

\* The node the --dest directory named when the command started.
DestGiven == cmd.dest # None
DestMissing == DestGiven /\ Resolve(fs0, cmd.dest[1]) = None

\* The relative paths of the nodes of the given kinds below node d.
RelSet(f, d, kinds) ==
    {SubSeq(n, Len(d) + 1, Len(n)) :
        n \in {m \in DOMAIN f : Under(m, d) /\ m # d /\ f[m].kind \in kinds}}

AllKinds == {"dir", "file", "other"}

\* The backup directory, as it was when the command started and as it is.
DstNode0 == Resolve(fs0, bak[1])
DstNode == Resolve(fs, bak[1])

\* Every regular file below the source has a byte-identical file at the same
\* relative path below the backup directory.
FilesIdentical ==
    /\ DstNode # None
    /\ \A r \in RelSet(fs, SrcNode[1], {"file"}) :
          /\ (DstNode[1] \o r) \in DOMAIN fs
          /\ fs[DstNode[1] \o r] = fs[SrcNode[1] \o r]

\* The backup directory holds exactly the files and directories of the source.
SamePaths ==
    /\ DstNode # None
    /\ RelSet(fs, DstNode[1], AllKinds) = RelSet(fs, SrcNode[1], {"dir", "file"})

\* Before the command the backup directory held nothing but entries the
\* source has too, of the same kind (it may not have existed at all).
NothingForeign ==
    DstNode0 # None =>
        \A r \in RelSet(fs0, DstNode0[1], AllKinds) :
            /\ (SrcNode[1] \o r) \in DOMAIN fs0
            /\ fs0[SrcNode[1] \o r].kind = fs0[DstNode0[1] \o r].kind

\* The backup directory existed and held part of the source's entries.
PartialCopy == DstNode0 # None /\ fs0[DstNode0[1]].kind = "dir" /\ NothingForeign

\* The depth of the directory tree below node d: 1 when it has no
\* subdirectory.
TreeDepth(f, d) ==
    LET depths == {Len(n) - Len(d) + 1 : n \in {m \in DOMAIN f : Under(m, d) /\ f[m].kind = "dir"}}
    IN  CHOOSE k \in depths : \A j \in depths : j <= k

DirRan == cmd.op = "dir" /\ bak # None
DirDone(code) == DirRan /\ pc = "done" /\ exit = code

----------------------------------------------------------------------------
(* C1 *)

CalledOn(kind, srckind) ==
    derived # None /\ derived[1].kind = kind /\ SrcIs(srckind)

\* The place parent(d)/<name(d)><suffix> of the node d the path names.
Sibling(d, name) == Some(Front(d) \o <<name>>)

\* C1 as stated: for every path that exists and is a directory, '.', '..',
\* a path ending in '..' and the root included, backup_path(d, Directory)
\* is Some(parent(d)/<name(d)>_bak), never None.
C1_AsStated ==
    CalledOn("Directory", "dir") =>
        /\ derived[1].result # None
        /\ SrcNode[1] # <<>> =>
              Target(fs0, derived[1].result[1])
                  = Sibling(SrcNode[1], Last(SrcNode[1]) \o UBAK)

\* C1 amended: for every path that exists, is a directory and ends in a normal
\* name, backup_path(d, Directory) is Some(parent(d)/<name(d)>_bak); for '.',
\* '..', a path ending in '..' and the root it is None.
C1_DirectoryBackupPath ==
    CalledOn("Directory", "dir") =>
        IF Components(cmd.path) # <<>>
           /\ Last(Components(cmd.path)) \notin {CurDir, ParentDir}
        THEN /\ derived[1].result # None
             /\ Target(fs0, derived[1].result[1])
                    = Sibling(SrcNode[1], Last(SrcNode[1]) \o UBAK)
        ELSE derived[1].result = None

C1_Witness ==
    /\ CalledOn("Directory", "dir")
    /\ cmd.path = Rel(<<nP, nS, CurDir>>)
    /\ derived[1].result = Some(Rel(<<nP, <<"s", "_", "b", "a", "k">> >>))

----------------------------------------------------------------------------
(* C2 *)

\* C2: for every path that exists and is a regular file,
\* backup_path(f, File) is Some(parent(f)/<stem(f)>.bak), never None: the
\* last extension is replaced by 'bak' (n.t -> n.bak, a.t.g -> a.t.bak) and
\* a name without extension gets '.bak' appended (n -> n.bak).
C2_FileBackupPath ==
    CalledOn("File", "file") =>
        LET name == Last(SrcNode[1])
            got == Target(fs0, derived[1].result[1])
        IN  /\ derived[1].result # None
            /\ got = Sibling(SrcNode[1], FileStem(name) \o <<".">> \o BAK)
            /\ name = nNT => Last(got[1]) = nNbak
            /\ name = nATG => Last(got[1]) = <<"a", ".", "t", ".", "b", "a", "k">>
            /\ name = nN => Last(got[1]) = nNbak
            /\ name = nH => Last(got[1]) = <<".", "h", ".", "b", "a", "k">>

C2_Witness ==
    /\ CalledOn("File", "file")
    /\ cmd.path = Rel(<<nATG>>)
    /\ derived[1].result = Some(Rel(<< <<"a", ".", "t", ".", "b", "a", "k">> >>))

----------------------------------------------------------------------------
(* C3 *)

\* C3: backup_path(p, kind) is None when p does not exist and when p exists
\* with a type other than kind (a file with Directory, a directory with
\* File); nothing of the file system is created or changed.
C3_InvalidSourceIsNone ==
    /\ derived # None /\ SrcNode = None => derived[1].result = None /\ fs = fs0
    /\ CalledOn("Directory", "file") => derived[1].result = None /\ fs = fs0
    /\ CalledOn("File", "dir") => derived[1].result = None /\ fs = fs0

C3_Witness ==
    /\ CalledOn("Directory", "file")
    /\ derived[1].result = None
    /\ pc = "done"

----------------------------------------------------------------------------
(* C4 *)

\* C4 as stated: after backup_directory(src, dst) returns Ok, every regular
\* file under src has a byte-identical file at the same relative path under
\* dst, and the relative paths under dst are exactly those of the regular
\* files and directories under src.
C4_AsStated ==
    DirDone("ok") => FilesIdentical /\ SamePaths

\* C4 amended: the same, for a dst that before the call held no entry
\* without a counterpart of the same kind in src (as when dst did not exist).
C4_RoundTrip ==
    DirDone("ok") /\ NothingForeign => FilesIdentical /\ SamePaths

C4_Witness ==
    /\ DirDone("ok")
    /\ DstNode0 = None
    /\ SrcNode = Some(<<nW, nP>>)
    /\ (<<nW, nP, nL>>) \in DOMAIN fs
    /\ (DstNode[1] \o <<nS, nBT>>) \in DOMAIN fs
    /\ fs[DstNode[1] \o <<nS, nBT>>] = File("y")

----------------------------------------------------------------------------
(* C5 *)

\* C5: backup_directory(src, dst) on a dst that already holds a partial
\* earlier copy of src returns Ok (the environment failing no operation),
\* and then every file of dst that corresponds to a file of src holds the
\* source's content; a run onto a complete copy leaves dst unchanged.
C5_RerunCompletes ==
    DirRan /\ ~faulty /\ PartialCopy /\ pc = "done" =>
        /\ exit = "ok"
        /\ FilesIdentical
        /\ (\A r \in RelSet(fs0, SrcNode[1], {"dir", "file"}) :
                (DstNode0[1] \o r) \in DOMAIN fs0
                /\ fs0[DstNode0[1] \o r] = fs0[SrcNode[1] \o r]) => fs = fs0

----------------------------------------------------------------------------
(* C6 *)

\* C6: 'backup file <path>', with or without --dest, on a source that does
\* not exist or is not a regular file ends with a non-zero exit and creates
\* no file or directory anywhere.
C6_InvalidFileCreatesNothing ==
    cmd.op = "file" /\ ~SrcIs("file") /\ pc = "done" =>
        exit = "err" /\ DOMAIN fs = DOMAIN fs0 /\ fs = fs0

C6_Witness ==
    /\ cmd.op = "file" /\ pc = "done"
    /\ cmd.path = Rel(<<nM>>)
    /\ cmd.dest = Some(Rel(<<CurDir>>))
    /\ bak = Some(Rel(<<CurDir, <<"m", ".", "b", "a", "k">> >>))
    /\ exit = "err"

----------------------------------------------------------------------------
(* C7 *)

\* C7: 'backup file <path> --dest <dir>' on a regular file, <dir> not
\* existing, exits non-zero and does not create <dir>; 'backup dir <path>
\* --dest <dir>' on a directory the command accepts, <dir> not existing,
\* creates <dir> with all its missing ancestors and <name>_bak directly
\* under it (the environment failing no operation).
C7_MissingDest ==
    /\ cmd.op = "file" /\ SrcIs("file") /\ DestMissing /\ pc = "done" =>
          /\ exit = "err"
          /\ Resolve(fs, cmd.dest[1]) = None
          /\ fs = fs0
    /\ DirRan /\ DestMissing /\ ~faulty /\ pc = "done" =>
          /\ Resolve(fs, cmd.dest[1]) # None
          /\ IsDirAt(fs, Resolve(fs, cmd.dest[1])[1])
          /\ IsDirAt(fs, Resolve(fs, cmd.dest[1])[1] \o <<Last(SrcNode[1]) \o UBAK>>)
          /\ DstNode = Some(Resolve(fs, cmd.dest[1])[1] \o <<Last(SrcNode[1]) \o UBAK>>)

C7_Witness ==
    /\ DirDone("ok") /\ ~faulty
    /\ cmd.dest = Some(Rel(<<nO, nQ>>))
    /\ Resolve(fs0, Rel(<<nO>>)) = None
    /\ <<nW, nO, nQ, nPbak, nAT>> \in DOMAIN fs
    /\ fs[<<nW, nO, nQ, nPbak, nAT>>] = File("x")

----------------------------------------------------------------------------
(* C8 *)

\* C8: the first failing operation of backup_directory, at any depth, makes
\* the top-level call return Err at once: nothing is created or copied
\* after it, and what was created or copied before it stays.
C8_FirstErrorAborts ==
    [][ /\ failed => fs' = fs
        /\ ~failed /\ failed' =>
              /\ stack' = <<>> /\ pc' = "done" /\ exit' = "err"
              /\ \A n \in DOMAIN fs : n \in DOMAIN fs' /\ fs'[n] = fs[n] ]_vars

C8_Witness ==
    /\ failed /\ failDepth >= 2 /\ exit = "err"
    /\ \E n \in DOMAIN fs \ DOMAIN fs0 : fs[n].kind = "file"

----------------------------------------------------------------------------
(* C9 *)

\* C9: for every existing directory src and every dst, a dst inside src
\* included, backup_directory ends with Ok or with the first error and never
\* recurses deeper than the source tree was deep when the call started; a
\* run that ends Ok has recursed exactly that deep.
C9_DepthIsTreeDepth ==
    DirRan =>
        /\ Len(stack) <= TreeDepth(fs0, SrcNode[1])
        /\ exit = "ok" => maxDepth = TreeDepth(fs0, SrcNode[1])

----------------------------------------------------------------------------
(* C10 *)

\* C10: a backup never touches its source: the path backup_path(f, File)
\* returns for an existing regular file, one named *.bak included, is not f,
\* and 'backup file f' leaves f's content as it was; backup_directory
\* creates, overwrites and removes nothing under src.
C10_SourceUntouched ==
    /\ CalledOn("File", "file") /\ derived[1].result # None =>
          Target(fs0, derived[1].result[1]) # SrcNode
    /\ cmd.op = "file" /\ SrcIs("file") => fs[SrcNode[1]] = fs0[SrcNode[1]]
    /\ DirRan =>
          \A n \in DOMAIN fs :
              Under(n, SrcNode[1]) => n \in DOMAIN fs0 /\ fs[n] = fs0[n]

====
